---- MODULE Spec2Model ----
(***************************************************************************)
(* Model of the multi-user in-memory file system of src/file_system.py as  *)
(* driven by the command handlers of src/terminal.py.                      *)
(*                                                                         *)
(* Python objects live in a heap indexed by object ids, so that object     *)
(* identity, aliasing and parent back-references are explicit.  Strings    *)
(* are sequences of one-character strings, so that path parsing is         *)
(* computed and not assumed.                                               *)
(***************************************************************************)
EXTENDS Integers, Sequences, FiniteSets, TLC

VARIABLES heap, users, current_user, last

vars == <<heap, users, current_user, last>>

----------------------------------------------------------------------------
(* Bounds *)

(* Live Python objects (session roots, directories, files): a call that    *)
(* would create one more is not taken                                      *)
MaxObj == 3

(* Length of a file's content: an append that would exceed it is not taken *)
MaxContentLen == 2

ObjIds == 1..MaxObj

(* Inputs: user names, entry names (".." and "/" are names create_file     *)
(* accepts, "/" one create_directory accepts), paths given to              *)
(* change_directory, contents given to write_file and append_file          *)

Usernames == {"alice", "bob"}

Lastnames == {"Smith"}

Names == { <<"a">>, <<".", ".">>, <<"/">> }

Paths == Names \cup { <<".">>, <<"/", "a">>, <<"/", "a", "/", "a">> }

ContentInputs == { <<"x">>, <<"y">> }

NoUser == "<none>"

None == 0

EmptyStr == <<>>

----------------------------------------------------------------------------
(* Python objects *)

Free == [kind |-> "free"]

EmptyDict == [n \in {} |-> None]

File(name, content, owner) ==
    [kind |-> "file", name |-> name, content |-> content, owner |-> owner,
     size |-> Len(content)]

Directory(name, owner, parent) ==
    [kind |-> "dir", name |-> name, owner |-> owner, parent |-> parent,
     children |-> EmptyDict]

isFile(h, i) == h[i].kind = "file"

isDirectory(h, i) == h[i].kind = "dir"

FreeIds(h) == {i \in ObjIds : h[i].kind = "free"}

NewId(h) == CHOOSE i \in FreeIds(h) : \A j \in FreeIds(h) : i <= j

DictPut(d, k, v) == [n \in (DOMAIN d) \cup {k} |-> IF n = k THEN v ELSE d[n]]

DictDel(d, k) == [n \in (DOMAIN d) \ {k} |-> d[n]]

(* File.read *)
read(h, f) == h[f].content

(* Mutant of write: the new content is added to the old content *)
write_keeps_old(h, f, content) ==
    [h EXCEPT ![f].content = @ \o content,
              ![f].size = Len(h[f].content \o content)]

(* File.write *)
write(h, f, content) ==
    [h EXCEPT ![f].content = content, ![f].size = Len(content)]

(* Mutant of append: the new content is put in front of the old content *)
append_in_front(h, f, content) ==
    [h EXCEPT ![f].content = content \o @,
              ![f].size = Len(content \o h[f].content)]

(* File.append *)
append(h, f, content) ==
    [h EXCEPT ![f].content = @ \o content,
              ![f].size = Len(h[f].content \o content)]

(* Mutant of add_file: the name check is missing, an existing child is     *)
(* overwritten                                                             *)
add_file_overwrite(h, d, f) ==
    [heap |-> [h EXCEPT ![d].children = DictPut(@, h[f].name, f)], ok |-> TRUE]

(* Directory.add_file: the result is the heap and the returned flag *)
add_file(h, d, f) ==
    IF h[f].name \in DOMAIN h[d].children
    THEN [heap |-> h, ok |-> FALSE]
    ELSE [heap |-> [h EXCEPT ![d].children = DictPut(@, h[f].name, f)],
          ok |-> TRUE]

(* Mutant of add_directory: the parent reference is not updated *)
add_directory_keep_parent(h, d, sub) ==
    IF h[sub].name \in DOMAIN h[d].children
    THEN [heap |-> h, ok |-> FALSE]
    ELSE [heap |-> [h EXCEPT ![d].children = DictPut(@, h[sub].name, sub)],
          ok |-> TRUE]

(* Directory.add_directory *)
add_directory(h, d, sub) ==
    IF h[sub].name \in DOMAIN h[d].children
    THEN [heap |-> h, ok |-> FALSE]
    ELSE LET h1 == [h EXCEPT ![d].children = DictPut(@, h[sub].name, sub)]
         IN  [heap |-> [h1 EXCEPT ![sub].parent = d], ok |-> TRUE]

(* Directory.remove *)
remove(h, d, name) ==
    IF name \in DOMAIN h[d].children
    THEN [heap |-> [h EXCEPT ![d].children = DictDel(@, name)], ok |-> TRUE]
    ELSE [heap |-> h, ok |-> FALSE]

(* Directory.get: None when the name is not a key *)
get(h, d, name) ==
    IF name \in DOMAIN h[d].children THEN h[d].children[name] ELSE None

----------------------------------------------------------------------------
(* Strings *)

RECURSIVE LStrip(_, _)
LStrip(s, ch) ==
    IF s # <<>> /\ Head(s) = ch THEN LStrip(Tail(s), ch) ELSE s

RECURSIVE RStrip(_, _)
RStrip(s, ch) ==
    IF s # <<>> /\ s[Len(s)] = ch THEN RStrip(SubSeq(s, 1, Len(s) - 1), ch)
    ELSE s

(* str.strip("/") *)
Strip(s, ch) == RStrip(LStrip(s, ch), ch)

(* str.split("/"): a sequence of strings, never empty *)
RECURSIVE Split(_, _)
Split(s, ch) ==
    IF \A i \in 1..Len(s) : s[i] # ch
    THEN <<s>>
    ELSE LET k == CHOOSE i \in 1..Len(s) :
                      s[i] = ch /\ \A j \in 1..(i - 1) : s[j] # ch
         IN  <<SubSeq(s, 1, k - 1)>> \o Split(SubSeq(s, k + 1, Len(s)), ch)

startswith(s, ch) == s # <<>> /\ Head(s) = ch

(* Directory.get_path *)
(* Mutant of get_path: no special case for a parent path of "/", so a     *)
(* child of the root gets the path "//name"                                *)
RECURSIVE get_path_always_joined(_, _)
get_path_always_joined(h, d) ==
    IF h[d].parent = None
    THEN <<"/">>
    ELSE get_path_always_joined(h, h[d].parent) \o <<"/">> \o h[d].name

RECURSIVE get_path(_, _)
get_path(h, d) ==
    IF h[d].parent = None
    THEN <<"/">>
    ELSE LET parent_path == get_path(h, h[d].parent)
         IN  IF parent_path = <<"/">>
             THEN <<"/">> \o h[d].name
             ELSE parent_path \o <<"/">> \o h[d].name

----------------------------------------------------------------------------
(* Reference counting: an object that nothing refers to is reclaimed.  A   *)
(* directory that refers to itself stays allocated.                        *)

Referenced(h, us, i) ==
    \/ \E u \in DOMAIN us : us[u].root = i \/ us[u].cwd = i
    \/ \E j \in ObjIds : /\ isDirectory(h, j)
                         /\ \E n \in DOMAIN h[j].children : h[j].children[n] = i

Collect(h, us) ==
    [i \in ObjIds |-> IF h[i].kind # "free" /\ ~Referenced(h, us, i)
                      THEN Free ELSE h[i]]

----------------------------------------------------------------------------
(* FileSystem methods.  Each yields the heap and cursor after the call and *)
(* the returned pair: ok is the success flag, msg names the message        *)
(* template, payload is the string the message carries (file content or    *)
(* path).                                                                  *)

Ret(h, c, ok, msg, payload) ==
    [heap |-> h, cwd |-> c, ok |-> ok, msg |-> msg, payload |-> payload]

(* FileSystem.get_current_path *)
get_current_path(h, c) == get_path(h, c)

(* FileSystem.create_file *)
create_file(h, c, name, owner, content) ==
    IF name \in DOMAIN h[c].children
    THEN Ret(h, c, FALSE, "File or directory already exists", EmptyStr)
    ELSE LET f == NewId(h)
             r == add_file([h EXCEPT ![f] = File(name, content, owner)], c, f)
         IN  IF r.ok
             THEN Ret(r.heap, c, TRUE, "File created successfully", EmptyStr)
             ELSE Ret(r.heap, c, FALSE, "Failed to create file", EmptyStr)

(* FileSystem.create_directory *)
create_directory(h, c, name, owner) ==
    IF name \in DOMAIN h[c].children
    THEN Ret(h, c, FALSE, "File or directory already exists", EmptyStr)
    ELSE IF name \in { <<".">>, <<".", ".">> }
    THEN Ret(h, c, FALSE, "Invalid directory name", EmptyStr)
    ELSE LET d == NewId(h)
             r == add_directory([h EXCEPT ![d] = Directory(name, owner, c)],
                                c, d)
         IN  IF r.ok
             THEN Ret(r.heap, c, TRUE, "Directory created successfully",
                      EmptyStr)
             ELSE Ret(r.heap, c, FALSE, "Failed to create directory", EmptyStr)

(* The loop of FileSystem._navigate_absolute_path *)
(* Mutant of navigate_parts: a missing segment ends the walk at the        *)
(* directory reached so far instead of returning None                      *)
RECURSIVE navigate_parts_partial(_, _, _)
navigate_parts_partial(h, current, parts) ==
    IF parts = <<>> THEN current
    ELSE IF ~isDirectory(h, current) THEN None
    ELSE LET item == get(h, current, Head(parts))
         IN  IF item = None THEN current
             ELSE navigate_parts_partial(h, item, Tail(parts))

RECURSIVE navigate_parts(_, _, _)
navigate_parts(h, current, parts) ==
    IF parts = <<>> THEN current
    ELSE IF ~isDirectory(h, current) THEN None
    ELSE LET item == get(h, current, Head(parts))
         IN  IF item = None THEN None
             ELSE navigate_parts(h, item, Tail(parts))

(* FileSystem._navigate_absolute_path *)
navigate_absolute_path(h, root, path) ==
    IF path = <<"/">> THEN root
    ELSE navigate_parts(h, root, Split(Strip(path, "/"), "/"))

(* Mutant of change_directory: a relative name is entered without the     *)
(* check that it is a directory                                            *)
change_directory_any_kind(h, root, c, path) ==
    IF path = <<"/">>
    THEN Ret(h, root, TRUE, "Changed to root directory", EmptyStr)
    ELSE IF path = <<".", ".">>
    THEN IF h[c].parent # None
         THEN Ret(h, h[c].parent, TRUE, "Changed to",
                  get_current_path(h, h[c].parent))
         ELSE Ret(h, c, FALSE, "Already at root directory", EmptyStr)
    ELSE IF path = <<".">>
    THEN Ret(h, c, TRUE, "Current directory", get_current_path(h, c))
    ELSE LET item == get(h, c, path)
         IN  IF item # None
             THEN Ret(h, item, TRUE, "Changed to", EmptyStr)
             ELSE Ret(h, c, FALSE, "Directory not found", EmptyStr)

(* Mutant of change_directory: ".." at the root is not answered on its    *)
(* own but looked up like any other relative name                          *)
change_directory_up_lookup(h, root, c, path) ==
    IF path = <<"/">>
    THEN Ret(h, root, TRUE, "Changed to root directory", EmptyStr)
    ELSE IF path = <<".", ".">> /\ h[c].parent # None
    THEN Ret(h, h[c].parent, TRUE, "Changed to",
             get_current_path(h, h[c].parent))
    ELSE IF path = <<".">>
    THEN Ret(h, c, TRUE, "Current directory", get_current_path(h, c))
    ELSE IF startswith(path, "/")
    THEN LET target == navigate_absolute_path(h, root, path)
         IN  IF target # None /\ isDirectory(h, target)
             THEN Ret(h, target, TRUE, "Changed to",
                      get_current_path(h, target))
             ELSE Ret(h, c, FALSE, "Directory not found", EmptyStr)
    ELSE LET item == get(h, c, path)
         IN  IF item # None /\ isDirectory(h, item)
             THEN Ret(h, item, TRUE, "Changed to", get_current_path(h, item))
             ELSE Ret(h, c, FALSE, "Directory not found", EmptyStr)

(* FileSystem.change_directory *)
change_directory(h, root, c, path) ==
    IF path = <<"/">>
    THEN Ret(h, root, TRUE, "Changed to root directory", EmptyStr)
    ELSE IF path = <<".", ".">>
    THEN IF h[c].parent # None
         THEN Ret(h, h[c].parent, TRUE, "Changed to",
                  get_current_path(h, h[c].parent))
         ELSE Ret(h, c, FALSE, "Already at root directory", EmptyStr)
    ELSE IF path = <<".">>
    THEN Ret(h, c, TRUE, "Current directory", get_current_path(h, c))
    ELSE IF startswith(path, "/")
    THEN LET target == navigate_absolute_path(h, root, path)
         IN  IF target # None /\ isDirectory(h, target)
             THEN Ret(h, target, TRUE, "Changed to",
                      get_current_path(h, target))
             ELSE Ret(h, c, FALSE, "Directory not found", EmptyStr)
    ELSE LET item == get(h, c, path)
         IN  IF item # None /\ isDirectory(h, item)
             THEN Ret(h, item, TRUE, "Changed to", get_current_path(h, item))
             ELSE Ret(h, c, FALSE, "Directory not found", EmptyStr)

(* FileSystem.read_file *)
read_file(h, c, name) ==
    LET item == get(h, c, name)
    IN  IF item = None
        THEN Ret(h, c, FALSE, "File not found", EmptyStr)
        ELSE IF ~isFile(h, item)
        THEN Ret(h, c, FALSE, "is a directory, not a file", EmptyStr)
        ELSE Ret(h, c, TRUE, "content", read(h, item))

(* Mutant of write_file: no isinstance check, a directory under the name  *)
(* is replaced by a file holding the content                              *)
write_file_over_directory(h, c, name, content, owner) ==
    LET item == get(h, c, name)
    IN  IF item = None
        THEN create_file(h, c, name, owner, content)
        ELSE IF ~isFile(h, item)
        THEN Ret([h EXCEPT ![item] = File(name, content, owner)], c, TRUE,
                 "File updated successfully", EmptyStr)
        ELSE Ret(write(h, item, content), c, TRUE,
                 "File updated successfully", EmptyStr)

(* FileSystem.write_file *)
write_file(h, c, name, content, owner) ==
    LET item == get(h, c, name)
    IN  IF item = None
        THEN create_file(h, c, name, owner, content)
        ELSE IF ~isFile(h, item)
        THEN Ret(h, c, FALSE, "is a directory, not a file", EmptyStr)
        ELSE Ret(write(h, item, content), c, TRUE,
                 "File updated successfully", EmptyStr)

(* FileSystem.append_file *)
append_file(h, c, name, content) ==
    LET item == get(h, c, name)
    IN  IF item = None
        THEN Ret(h, c, FALSE, "File not found", EmptyStr)
        ELSE IF ~isFile(h, item)
        THEN Ret(h, c, FALSE, "is a directory, not a file", EmptyStr)
        ELSE Ret(append(h, item, content), c, TRUE, "Content appended",
                 EmptyStr)

(* Mutant of delete: a directory is removed whether or not it is empty *)
delete_nonempty(h, c, name) ==
    LET item == get(h, c, name)
    IN  IF item = None
        THEN Ret(h, c, FALSE, "not found", EmptyStr)
        ELSE Ret(remove(h, c, name).heap, c, TRUE, "deleted successfully",
                 EmptyStr)

(* FileSystem.delete *)
delete(h, c, name) ==
    LET item == get(h, c, name)
    IN  IF item = None
        THEN Ret(h, c, FALSE, "not found", EmptyStr)
        ELSE IF isDirectory(h, item) /\ Cardinality(DOMAIN h[item].children) > 0
        THEN Ret(h, c, FALSE, "Directory is not empty", EmptyStr)
        ELSE LET r == remove(h, c, name)
             IN  IF r.ok
                 THEN Ret(r.heap, c, TRUE, "deleted successfully", EmptyStr)
                 ELSE Ret(r.heap, c, FALSE, "Failed to delete", EmptyStr)

(* Mutant of move: the source is removed before the name collision in the *)
(* destination is checked                                                  *)
move_late_collision_check(h, c, source, destination) ==
    LET source_item == get(h, c, source)
        dest_item == get(h, c, destination)
    IN  IF source_item = None
        THEN Ret(h, c, FALSE, "Source not found", EmptyStr)
        ELSE IF dest_item = None
        THEN Ret(h, c, FALSE, "Destination not found", EmptyStr)
        ELSE IF ~isDirectory(h, dest_item)
        THEN Ret(h, c, FALSE, "Destination is not a directory", EmptyStr)
        ELSE LET h1 == remove(h, c, source).heap
             IN  IF source \in DOMAIN h[dest_item].children
                 THEN Ret(h1, c, FALSE, "already exists in destination",
                          EmptyStr)
                 ELSE Ret(IF isFile(h1, source_item)
                          THEN add_file(h1, dest_item, source_item).heap
                          ELSE add_directory(h1, dest_item, source_item).heap,
                          c, TRUE, "Moved", EmptyStr)

(* Mutant of move: the source is removed before the destination is checked *)
(* to be a directory                                                       *)
move_late_kind_check(h, c, source, destination) ==
    LET source_item == get(h, c, source)
        dest_item == get(h, c, destination)
    IN  IF source_item = None
        THEN Ret(h, c, FALSE, "Source not found", EmptyStr)
        ELSE IF dest_item = None
        THEN Ret(h, c, FALSE, "Destination not found", EmptyStr)
        ELSE LET h1 == remove(h, c, source).heap
             IN  IF ~isDirectory(h, dest_item)
                 THEN Ret(h1, c, FALSE, "Destination is not a directory",
                          EmptyStr)
                 ELSE IF source \in DOMAIN h[dest_item].children
                 THEN Ret(h, c, FALSE, "already exists in destination",
                          EmptyStr)
                 ELSE Ret(IF isFile(h1, source_item)
                          THEN add_file(h1, dest_item, source_item).heap
                          ELSE add_directory(h1, dest_item, source_item).heap,
                          c, TRUE, "Moved", EmptyStr)

(* FileSystem.move *)
move(h, c, source, destination) ==
    LET source_item == get(h, c, source)
        dest_item == get(h, c, destination)
    IN  IF source_item = None
        THEN Ret(h, c, FALSE, "Source not found", EmptyStr)
        ELSE IF dest_item = None
        THEN Ret(h, c, FALSE, "Destination not found", EmptyStr)
        ELSE IF ~isDirectory(h, dest_item)
        THEN Ret(h, c, FALSE, "Destination is not a directory", EmptyStr)
        ELSE IF source \in DOMAIN h[dest_item].children
        THEN Ret(h, c, FALSE, "already exists in destination", EmptyStr)
        ELSE LET h1 == remove(h, c, source).heap
                 h2 == IF isFile(h1, source_item)
                       THEN add_file(h1, dest_item, source_item).heap
                       ELSE add_directory(h1, dest_item, source_item).heap
             IN  Ret(h2, c, TRUE, "Moved", EmptyStr)

(* Mutant of copy_file: the source File object itself is entered under    *)
(* the destination name                                                    *)
copy_file_same_object(h, c, source, destination, owner) ==
    LET source_item == get(h, c, source)
    IN  IF source_item = None
        THEN Ret(h, c, FALSE, "Source file not found", EmptyStr)
        ELSE IF ~isFile(h, source_item)
        THEN Ret(h, c, FALSE, "is not a file", EmptyStr)
        ELSE IF destination \in DOMAIN h[c].children
        THEN Ret(h, c, FALSE, "File already exists", EmptyStr)
        ELSE Ret([h EXCEPT ![c].children = DictPut(@, destination, source_item)],
                 c, TRUE, "File copied", EmptyStr)

(* FileSystem.copy_file *)
copy_file(h, c, source, destination, owner) ==
    LET source_item == get(h, c, source)
    IN  IF source_item = None
        THEN Ret(h, c, FALSE, "Source file not found", EmptyStr)
        ELSE IF ~isFile(h, source_item)
        THEN Ret(h, c, FALSE, "is not a file", EmptyStr)
        ELSE LET new_file == NewId(h)
                 r == add_file([h EXCEPT ![new_file] =
                                   File(destination, h[source_item].content,
                                        owner)],
                               c, new_file)
             IN  IF r.ok
                 THEN Ret(r.heap, c, TRUE, "File copied", EmptyStr)
                 ELSE Ret(r.heap, c, FALSE, "File already exists", EmptyStr)

----------------------------------------------------------------------------
(* The registry (NetworkFileSystem) and the program's steps.               *)
(*                                                                         *)
(* users maps a registered username to its User: lastname, logged_in and   *)
(* the FileSystem's root and current_directory (object ids).  last records *)
(* the call just made and what it returned.                                *)

User(lastname, root) ==
    [lastname |-> lastname, root |-> root, cwd |-> root, logged_in |-> TRUE]

Call(op, user, name, dest, content, ok, msg, payload) ==
    [op |-> op, user |-> user, name |-> name, dest |-> dest,
     content |-> content, ok |-> ok, msg |-> msg, payload |-> payload]

Init ==
    /\ heap = [i \in ObjIds |-> Free]
    /\ users = EmptyDict
    /\ current_user = NoUser
    /\ last = Call("init", NoUser, EmptyStr, EmptyStr, EmptyStr, TRUE, "",
                   EmptyStr)

(* Mutant of CreateUser: a user registered after the first is given the   *)
(* FileSystem of an already registered user instead of a new one           *)
CreateUser_shared_filesystem(username, lastname) ==
    /\ username \notin DOMAIN users => FreeIds(heap) # {}
    /\ IF username \in DOMAIN users
       THEN /\ UNCHANGED <<heap, users>>
            /\ last' = Call("create_user", username, EmptyStr, EmptyStr,
                            EmptyStr, FALSE, "User already exists", EmptyStr)
       ELSE IF DOMAIN users # {}
       THEN LET other == CHOOSE v \in DOMAIN users : TRUE
            IN  /\ UNCHANGED heap
                /\ users' = DictPut(users, username,
                                    User(lastname, users[other].root))
                /\ last' = Call("create_user", username, EmptyStr, EmptyStr,
                                EmptyStr, TRUE, "User created successfully",
                                EmptyStr)
       ELSE LET root == NewId(heap)
            IN  /\ heap' = [heap EXCEPT
                              ![root] = Directory(<<"/">>, username, None)]
                /\ users' = DictPut(users, username, User(lastname, root))
                /\ last' = Call("create_user", username, EmptyStr, EmptyStr,
                                EmptyStr, TRUE, "User created successfully",
                                EmptyStr)
    /\ UNCHANGED current_user

(* Mutant of CreateUser: no membership test, registering a taken username *)
(* replaces its User and FileSystem by new ones                            *)
CreateUser_replace(username, lastname) ==
    /\ username \notin DOMAIN users => FreeIds(heap) # {}
    /\ IF FreeIds(heap) = {}
       THEN /\ UNCHANGED <<heap, users>>
            /\ last' = Call("create_user", username, EmptyStr, EmptyStr,
                            EmptyStr, FALSE, "User already exists", EmptyStr)
       ELSE LET root == NewId(heap)
            IN  /\ users' = DictPut(users, username, User(lastname, root))
                /\ heap' = Collect([heap EXCEPT
                              ![root] = Directory(<<"/">>, username, None)],
                              users')
                /\ last' = Call("create_user", username, EmptyStr, EmptyStr,
                                EmptyStr, TRUE, "User created successfully",
                                EmptyStr)
    /\ UNCHANGED current_user

(* NetworkFileSystem.create_user *)
CreateUser(username, lastname) ==
    /\ username \notin DOMAIN users => FreeIds(heap) # {}
    /\ IF username \in DOMAIN users
       THEN /\ UNCHANGED <<heap, users>>
            /\ last' = Call("create_user", username, EmptyStr, EmptyStr,
                            EmptyStr, FALSE, "User already exists", EmptyStr)
       ELSE LET root == NewId(heap)
            IN  /\ heap' = [heap EXCEPT
                              ![root] = Directory(<<"/">>, username, None)]
                /\ users' = DictPut(users, username, User(lastname, root))
                /\ last' = Call("create_user", username, EmptyStr, EmptyStr,
                                EmptyStr, TRUE, "User created successfully",
                                EmptyStr)
    /\ UNCHANGED current_user

(* Mutant of Login: logging in starts the user at the root again *)
Login_at_root(username) ==
    IF username \notin DOMAIN users
    THEN /\ UNCHANGED <<heap, users, current_user>>
         /\ last' = Call("login", username, EmptyStr, EmptyStr, EmptyStr,
                         FALSE, "User not found", EmptyStr)
    ELSE /\ current_user' = username
         /\ users' = [users EXCEPT ![username].logged_in = TRUE,
                                   ![username].cwd = users[username].root]
         /\ last' = Call("login", username, EmptyStr, EmptyStr, EmptyStr,
                         TRUE, "Welcome", EmptyStr)
         /\ UNCHANGED heap

(* NetworkFileSystem.login *)
Login(username) ==
    IF username \notin DOMAIN users
    THEN /\ UNCHANGED <<heap, users, current_user>>
         /\ last' = Call("login", username, EmptyStr, EmptyStr, EmptyStr,
                         FALSE, "User not found", EmptyStr)
    ELSE /\ current_user' = username
         /\ users' = [users EXCEPT ![username].logged_in = TRUE]
         /\ last' = Call("login", username, EmptyStr, EmptyStr, EmptyStr,
                         TRUE, "Welcome", EmptyStr)
         /\ UNCHANGED heap

(* NetworkFileSystem.logout *)
Logout ==
    IF current_user # NoUser
    THEN /\ users' = [users EXCEPT ![current_user].logged_in = FALSE]
         /\ current_user' = NoUser
         /\ last' = Call("logout", current_user, EmptyStr, EmptyStr, EmptyStr,
                         TRUE, "User logged out", EmptyStr)
         /\ UNCHANGED heap
    ELSE /\ UNCHANGED <<heap, users, current_user>>
         /\ last' = Call("logout", NoUser, EmptyStr, EmptyStr, EmptyStr,
                         FALSE, "No user logged in", EmptyStr)

(* The file system of the logged-in user, as the command handlers of       *)
(* terminal.py reach it after check_login                                  *)
cwd == users[current_user].cwd

root == users[current_user].root

(* A FileSystem call r made for the logged-in user takes effect *)
Apply(op, name, dest, content, r) ==
    /\ users' = [users EXCEPT ![current_user].cwd = r.cwd]
    /\ heap' = Collect(r.heap, users')
    /\ last' = Call(op, current_user, name, dest, content, r.ok, r.msg,
                    r.payload)
    /\ UNCHANGED current_user

CreateFile(name) ==
    /\ current_user # NoUser
    /\ name \notin DOMAIN heap[cwd].children => FreeIds(heap) # {}
    /\ Apply("create_file", name, EmptyStr, EmptyStr,
             create_file(heap, cwd, name, current_user, EmptyStr))

CreateDirectory(name) ==
    /\ current_user # NoUser
    /\ name \notin DOMAIN heap[cwd].children => FreeIds(heap) # {}
    /\ Apply("create_directory", name, EmptyStr, EmptyStr,
             create_directory(heap, cwd, name, current_user))

ChangeDirectory(path) ==
    /\ current_user # NoUser
    /\ Apply("change_directory", path, EmptyStr, EmptyStr,
             change_directory(heap, root, cwd, path))

ReadFile(name) ==
    /\ current_user # NoUser
    /\ Apply("read_file", name, EmptyStr, EmptyStr, read_file(heap, cwd, name))

WriteFile(name, content) ==
    /\ current_user # NoUser
    /\ name \notin DOMAIN heap[cwd].children => FreeIds(heap) # {}
    /\ Apply("write_file", name, EmptyStr, content,
             write_file(heap, cwd, name, content, current_user))

AppendFile(name, content) ==
    /\ current_user # NoUser
    /\ LET item == get(heap, cwd, name)
       IN  (item # None /\ isFile(heap, item)) =>
               Len(heap[item].content) + Len(content) <= MaxContentLen
    /\ Apply("append_file", name, EmptyStr, content,
             append_file(heap, cwd, name, content))

Delete(name) ==
    /\ current_user # NoUser
    /\ Apply("delete", name, EmptyStr, EmptyStr, delete(heap, cwd, name))

Move(source, destination) ==
    /\ current_user # NoUser
    /\ Apply("move", source, destination, EmptyStr,
             move(heap, cwd, source, destination))

CopyFile(source, destination) ==
    /\ current_user # NoUser
    /\ LET source_item == get(heap, cwd, source)
       IN  (source_item # None /\ isFile(heap, source_item)) =>
               FreeIds(heap) # {}
    /\ Apply("copy_file", source, destination, EmptyStr,
             copy_file(heap, cwd, source, destination, current_user))

(* TerminalSimulator.pwd_command for the logged-in user *)
Pwd ==
    /\ current_user # NoUser
    /\ last' = Call("pwd", current_user, EmptyStr, EmptyStr, EmptyStr, TRUE,
                    "path", get_current_path(heap, cwd))
    /\ UNCHANGED <<heap, users, current_user>>

(* The commands whose handlers begin with check_login *)
LoginCommands ==
    {"pwd", "ls", "cd", "mkdir", "touch", "write", "read", "cat", "rm", "mv",
     "cp"}

(* The commands of the command table *)
Commands ==
    LoginCommands \cup {"help", "createuser", "login", "logout", "users",
                        "whoami", "clear", "exit", "quit"}

(* Leading tokens tried that are not in the command table *)
OtherTokens == {"dir", "log"}

(* TerminalSimulator.check_login fails: the handler of cmd prints the      *)
(* error and returns                                                       *)
CheckLoginFails(cmd) ==
    /\ current_user = NoUser
    /\ last' = Call(cmd, NoUser, EmptyStr, EmptyStr, EmptyStr, FALSE,
                    "No user logged in. Please login first.", EmptyStr)
    /\ UNCHANGED <<heap, users, current_user>>

(* Mutant of UnknownCommand: the token is matched as a prefix of a command *)
(* name, so "log" runs logout                                              *)
UnknownCommand_prefix_match(token) ==
    IF token = "log" /\ current_user # NoUser
    THEN /\ users' = [users EXCEPT ![current_user].logged_in = FALSE]
         /\ current_user' = NoUser
         /\ last' = Call("unknown_command", current_user, EmptyStr, EmptyStr,
                         EmptyStr, TRUE, "User logged out", EmptyStr)
         /\ UNCHANGED heap
    ELSE /\ last' = Call("unknown_command", current_user, EmptyStr, EmptyStr,
                         EmptyStr, FALSE, "Unknown command", EmptyStr)
         /\ UNCHANGED <<heap, users, current_user>>

(* TerminalSimulator.parse_command for a token that is not in the command  *)
(* table                                                                   *)
UnknownCommand(token) ==
    /\ token \notin Commands
    /\ last' = Call("unknown_command", current_user, EmptyStr, EmptyStr,
                    EmptyStr, FALSE, "Unknown command", EmptyStr)
    /\ UNCHANGED <<heap, users, current_user>>

Next ==
    \/ \E u \in Usernames, l \in Lastnames : CreateUser(u, l)
    \/ \E u \in Usernames : Login(u)
    \/ Logout
    \/ \E n \in Names : CreateFile(n)
    \/ \E n \in Names : CreateDirectory(n)
    \/ \E p \in Paths : ChangeDirectory(p)
    \/ \E n \in Names : ReadFile(n)
    \/ \E n \in Names, s \in ContentInputs : WriteFile(n, s)
    \/ \E n \in Names, s \in ContentInputs : AppendFile(n, s)
    \/ \E n \in Names : Delete(n)
    \/ \E n \in Names, m \in Names : Move(n, m)
    \/ \E n \in Names, m \in Names : CopyFile(n, m)
    \/ Pwd
    \/ \E cmd \in LoginCommands : CheckLoginFails(cmd)
    \/ \E token \in OtherTokens : UnknownCommand(token)

Spec == Init /\ [][Next]_vars

(* Directory names with and without a "/" inside, as mkdir_command passes  *)
(* any blank-free token on as the name                                     *)
SlashNames == { <<"a">>, <<"a", "/", "a">> }

(* Paths given to cd: the names, "/", "..", and the absolute paths that    *)
(* get_current_path can return one and two levels below the root           *)
SlashPaths ==
    SlashNames \cup { <<"/">>, <<".", ".">>, <<"/", "a">>,
                      <<"/", "a", "/", "a">> }

(* The commands that build and walk directory trees, over SlashNames *)
NextSlash ==
    \/ \E u \in Usernames, l \in Lastnames : CreateUser(u, l)
    \/ \E u \in Usernames : Login(u)
    \/ Logout
    \/ \E n \in SlashNames : CreateFile(n)
    \/ \E n \in SlashNames : CreateDirectory(n)
    \/ \E p \in SlashPaths : ChangeDirectory(p)
    \/ \E n \in SlashNames : Delete(n)
    \/ Pwd

SpecSlash == Init /\ [][NextSlash]_vars

----------------------------------------------------------------------------
(* Vocabulary of the properties *)

FsOps == {"create_file", "create_directory", "change_directory", "read_file",
          "write_file", "append_file", "delete", "move", "copy_file"}

ChildrenOf(h, i) ==
    IF isDirectory(h, i) THEN {h[i].children[n] : n \in DOMAIN h[i].children}
    ELSE {}

RECURSIVE ReachFrom(_, _)
ReachFrom(h, S) ==
    LET N == S \cup UNION {ChildrenOf(h, i) : i \in S}
    IN  IF N = S THEN S ELSE ReachFrom(h, N)

(* The entries reachable from entry r through children links, r included *)
Reachable(h, r) == ReachFrom(h, {r})

(* The current directory, before the step, of the session the step's call *)
(* was made on                                                            *)
CallCwd == users[last'.user].cwd

----------------------------------------------------------------------------
(* C1 - Uniqueness.  create_file, create_directory, copy_file (destination *)
(* name) and move (source name into the destination directory) succeed     *)
(* only if the name is not yet a key of the target container's children,   *)
(* whatever the kind of the child that holds the name; when the name is    *)
(* taken the call fails, with the already-exists message whenever its      *)
(* other preconditions hold, and the target's children are unchanged; the  *)
(* same call made again right after a success fails.                       *)
C1_Uniqueness ==
    [][ /\ last'.op \in {"create_file", "create_directory"} =>
             LET c == CallCwd
                 n == last'.name
             IN  /\ last'.ok => /\ n \notin DOMAIN heap[c].children
                                /\ n \in DOMAIN heap'[c].children
                 /\ n \in DOMAIN heap[c].children =>
                        /\ ~last'.ok
                        /\ last'.msg = "File or directory already exists"
                        /\ heap'[c].children = heap[c].children
        /\ last'.op = "copy_file" =>
             LET c == CallCwd
                 n == last'.dest
                 src == get(heap, c, last'.name)
             IN  /\ last'.ok => /\ n \notin DOMAIN heap[c].children
                                /\ n \in DOMAIN heap'[c].children
                 /\ n \in DOMAIN heap[c].children =>
                        /\ ~last'.ok
                        /\ heap'[c].children = heap[c].children
                        /\ (src # None /\ isFile(heap, src)) =>
                               last'.msg = "File already exists"
        /\ last'.op = "move" =>
             LET c == CallCwd
                 n == last'.name
                 d == get(heap, c, last'.dest)
             IN  /\ last'.ok => /\ d # None
                                /\ isDirectory(heap, d)
                                /\ n \notin DOMAIN heap[d].children
                                /\ n \in DOMAIN heap'[d].children
                 /\ (d # None /\ isDirectory(heap, d)
                       /\ n \in DOMAIN heap[d].children) =>
                        /\ ~last'.ok
                        /\ heap'[d].children = heap[d].children
                        /\ n \in DOMAIN heap[c].children =>
                               last'.msg = "already exists in destination"
        /\ ( /\ last.op \in {"create_file", "create_directory", "copy_file",
                             "move"}
             /\ last.ok
             /\ last'.op = last.op
             /\ last'.name = last.name
             /\ last'.dest = last.dest ) => ~last'.ok
      ]_vars

(* C1 witness: a move was refused because the destination directory        *)
(* already holds the source's name                                         *)
C1_Witness ==
    /\ last.op = "move"
    /\ ~last.ok
    /\ last.msg = "already exists in destination"

----------------------------------------------------------------------------
(* C2 as stated - delete(name) on a child directory that has a child fails *)
(* with "Directory is not empty" and removes nothing; on an empty child    *)
(* directory or a child file it succeeds and name is no longer a child of  *)
(* the current directory; read_file(name) and change_directory(name) made  *)
(* right after a successful delete(name) fail with a not-found message.    *)
C2_DeleteStep ==
    last'.op = "delete" =>
        LET c == CallCwd
            item == get(heap, c, last'.name)
        IN  /\ (item # None /\ isDirectory(heap, item)
                  /\ DOMAIN heap[item].children # {}) =>
                   /\ ~last'.ok
                   /\ last'.msg = "Directory is not empty"
                   /\ heap' = heap
                   /\ users' = users
            /\ (item # None /\ (isFile(heap, item)
                                  \/ DOMAIN heap[item].children = {})) =>
                   /\ last'.ok
                   /\ last'.name \notin DOMAIN heap'[c].children
                   /\ heap'[c].children = DictDel(heap[c].children, last'.name)

C2_ReadAfterDelete ==
    ( /\ last.op = "delete" /\ last.ok
      /\ last'.op = "read_file" /\ last'.name = last.name ) =>
        (~last'.ok /\ last'.msg = "File not found")

C2_CdAfterDelete ==
    ( /\ last.op = "delete" /\ last.ok
      /\ last'.op = "change_directory" /\ last'.name = last.name ) =>
        (~last'.ok /\ last'.msg = "Directory not found")

C2_AsStated ==
    [][C2_DeleteStep /\ C2_ReadAfterDelete /\ C2_CdAfterDelete]_vars

(* C2 amended - as C2, with the failure of change_directory(name) claimed  *)
(* only for a name that is none of "/", "." and ".." and does not begin    *)
(* with "/" (those are paths change_directory resolves without looking the *)
(* name up in the current directory).                                      *)
C2_Delete ==
    [][ /\ C2_DeleteStep
        /\ C2_ReadAfterDelete
        /\ (last'.name \notin { <<"/">>, <<".">>, <<".", ".">> }
              /\ ~startswith(last'.name, "/")) => C2_CdAfterDelete
      ]_vars

(* C2 witness: deleting a directory that still has a child was refused and *)
(* the directory is still there with its child                             *)
C2_Witness ==
    /\ last.op = "delete"
    /\ ~last.ok
    /\ last.msg = "Directory is not empty"
    /\ LET item == get(heap, users[last.user].cwd, last.name)
       IN  item # None /\ isDirectory(heap, item)
             /\ DOMAIN heap[item].children # {}

----------------------------------------------------------------------------
(* C3 - After a successful move(source, destination) in the current        *)
(* directory: source is no longer a child of the current directory,        *)
(* destination is still a child of it, the very same source entry (same    *)
(* payload or same subtree) is a child of destination under the name       *)
(* source, and if it is a directory its parent is destination; for every   *)
(* pair of names, source = destination included.                           *)
C3_Move ==
    [][ (last'.op = "move" /\ last'.ok) =>
          LET c == CallCwd
              s == heap[c].children[last'.name]
              d == heap[c].children[last'.dest]
          IN  /\ last'.name \notin DOMAIN heap'[c].children
              /\ last'.dest \in DOMAIN heap'[c].children
              /\ heap'[c].children[last'.dest] = d
              /\ last'.name \in DOMAIN heap'[d].children
              /\ heap'[d].children[last'.name] = s
              /\ isFile(heap, s) => heap'[s] = heap[s]
              /\ isDirectory(heap, s) =>
                     /\ heap'[s].children = heap[s].children
                     /\ Reachable(heap', s) = Reachable(heap, s)
                     /\ heap'[s].parent = d
      ]_vars

(* C4 - Entries are destroyed only by explicit deletion: the set of        *)
(* entries reachable from a session's root shrinks only in a step that is  *)
(* a successful delete on that session, and then by exactly one entry; no  *)
(* other call makes a reachable entry unreachable.                         *)
C4_OnlyDeleteDestroys ==
    [][ \A u \in DOMAIN users :
          LET before == Reachable(heap, users[u].root)
              after == Reachable(heap', users'[u].root)
          IN  IF last'.op = "delete" /\ last'.ok /\ last'.user = u
              THEN /\ after \subseteq before
                   /\ Cardinality(before \ after) = 1
              ELSE before \subseteq after
      ]_vars

(* C5 - Tree shape.  In every reachable state each session's root has no   *)
(* parent and the name "/"; every other directory D reachable from the     *)
(* root is held by exactly one reachable directory P, under exactly the    *)
(* key D.name, and D.parent is P; following parent references from a       *)
(* reachable directory reaches the root (no directory reachable from the   *)
(* root is its own ancestor or its own child).                             *)
Holders(h, R, d) ==
    { p \in R : isDirectory(h, p) /\ d \in ChildrenOf(h, p) }

RECURSIVE ParentChainReaches(_, _, _, _)
ParentChainReaches(h, d, r, fuel) ==
    IF d = r THEN TRUE
    ELSE IF fuel = 0 \/ h[d].parent = None THEN FALSE
    ELSE ParentChainReaches(h, h[d].parent, r, fuel - 1)

C5_TreeShape ==
    \A u \in DOMAIN users :
      LET r == users[u].root
          R == Reachable(heap, r)
      IN  /\ isDirectory(heap, r)
          /\ heap[r].parent = None
          /\ heap[r].name = <<"/">>
          /\ \A d \in R \ {r} :
               isDirectory(heap, d) =>
                 /\ Cardinality(Holders(heap, R, d)) = 1
                 /\ heap[d].parent \in Holders(heap, R, d)
                 /\ { n \in DOMAIN heap[heap[d].parent].children :
                        heap[heap[d].parent].children[n] = d } = {heap[d].name}
                 /\ d \notin ChildrenOf(heap, d)
                 /\ ParentChainReaches(heap, d, r, MaxObj)
          /\ \A d \in R : r \notin ChildrenOf(heap, d)

(* C5 witness: a directory has just been moved into another directory and  *)
(* sits two levels below the root                                          *)
C5_Witness ==
    /\ last.op = "move"
    /\ last.ok
    /\ \E d \in Reachable(heap, users[last.user].root) :
         /\ isDirectory(heap, d)
         /\ heap[d].name = last.name
         /\ heap[d].parent \notin {None, users[last.user].root, d}

(* C6 - In every reachable state of every session, current_directory is a  *)
(* directory reachable from that session's root through children links.    *)
C6_CwdReachable ==
    \A u \in DOMAIN users :
      /\ users[u].cwd \in Reachable(heap, users[u].root)
      /\ isDirectory(heap, users[u].cwd)

(* C6 witness: with the cursor below the root, an entry of the current     *)
(* directory has just been deleted                                         *)
C6_Witness ==
    /\ last.op = "delete"
    /\ last.ok
    /\ users[last.user].cwd # users[last.user].root

----------------------------------------------------------------------------
(* C7 - Atomicity on failure: a create_file, create_directory,             *)
(* change_directory, read_file, write_file, append_file, delete, move or   *)
(* copy_file call that returns success = false leaves every object         *)
(* (children, payloads, owners, parent references) and every session's     *)
(* current_directory as they were before the call.                         *)
C7_FailureChangesNothing ==
    [][ (last'.op \in FsOps /\ ~last'.ok) =>
          (heap' = heap /\ users' = users /\ current_user' = current_user)
      ]_vars

(* C7 witness: a copy onto a taken name has just failed *)
C7_Witness ==
    /\ last.op = "copy_file"
    /\ ~last.ok
    /\ last.msg = "File already exists"

(* C8 as stated - write_file(f, s, owner) immediately followed by          *)
(* read_file(f) in the same current directory returns (true, s), for any   *)
(* string s and any name f, absent or already present before the write.    *)
C8_AsStated ==
    [][ ( /\ last.op = "write_file"
          /\ last'.op = "read_file"
          /\ last'.name = last.name ) =>
            (last'.ok /\ last'.payload = last.content)
      ]_vars

(* C8 amended - for any string s and any name f that is not a child        *)
(* directory of the current directory, write_file(f, s, owner) succeeds,   *)
(* f then is a file with content s, and read_file(f) made right after it   *)
(* returns (true, s); when f is a child directory the write fails.         *)
C8_WriteRead ==
    [][ /\ last'.op = "write_file" =>
             LET c == CallCwd
                 item == get(heap, c, last'.name)
             IN  IF item # None /\ isDirectory(heap, item)
                 THEN ~last'.ok
                 ELSE /\ last'.ok
                      /\ last'.name \in DOMAIN heap'[c].children
                      /\ isFile(heap', heap'[c].children[last'.name])
                      /\ heap'[heap'[c].children[last'.name]].content
                           = last'.content
        /\ ( /\ last.op = "write_file"
             /\ last.ok
             /\ last'.op = "read_file"
             /\ last'.name = last.name ) =>
               (last'.ok /\ last'.payload = last.content)
      ]_vars

(* C8 witness: a file that was already present has just been overwritten   *)
(* and holds the written string                                            *)
C8_Witness ==
    /\ last.op = "write_file"
    /\ last.ok
    /\ last.msg = "File updated successfully"
    /\ heap[heap[users[last.user].cwd].children[last.name]].content
         = last.content

(* C9 - Append is concatenation: if f is a file with content a in the      *)
(* current directory, append_file(f, b) succeeds and leaves f with content *)
(* a + b; read_file(f) returns (true, the content of f), so after the      *)
(* append it returns a + b, and after appends b1..bn a + b1 + ... + bn; in *)
(* every state a file's size is the length of its content.                 *)
C9_SizeIsLength ==
    \A i \in ObjIds : isFile(heap, i) => heap[i].size = Len(heap[i].content)

C9_Append ==
    [][ /\ last'.op = "append_file" =>
             LET c == CallCwd
                 f == get(heap, c, last'.name)
             IN  (f # None /\ isFile(heap, f)) =>
                    /\ last'.ok
                    /\ heap'[c].children = heap[c].children
                    /\ heap'[f].content = heap[f].content \o last'.content
                    /\ heap'[f].size = Len(heap[f].content) + Len(last'.content)
        /\ last'.op = "read_file" =>
             LET f == get(heap, CallCwd, last'.name)
             IN  (f # None /\ isFile(heap, f)) =>
                    (last'.ok /\ last'.payload = heap[f].content)
        /\ C9_SizeIsLength'
      ]_vars

(* C9 witness: a non-empty string has just been appended to a non-empty    *)
(* file                                                                    *)
C9_Witness ==
    /\ last.op = "append_file"
    /\ last.ok
    /\ last.content # EmptyStr
    /\ Len(heap[heap[users[last.user].cwd].children[last.name]].content)
         > Len(last.content)

(* C10 - mv into a target that is a file: when source and destination are  *)
(* both children of the current directory and destination is a file,       *)
(* move(source, destination) fails with "Destination is not a directory",  *)
(* source remains a child of the current directory with unchanged content  *)
(* and destination is unchanged.                                           *)
C10_MoveIntoFile ==
    [][ last'.op = "move" =>
          LET c == CallCwd
              s == get(heap, c, last'.name)
              d == get(heap, c, last'.dest)
          IN  (s # None /\ d # None /\ isFile(heap, d)) =>
                 /\ ~last'.ok
                 /\ last'.msg = "Destination is not a directory"
                 /\ heap'[c].children = heap[c].children
                 /\ heap'[s] = heap[s]
                 /\ heap'[d] = heap[d]
      ]_vars

(* C10 witness: a move of one entry into another entry that is a file has  *)
(* just been refused                                                       *)
C10_Witness ==
    /\ last.op = "move"
    /\ ~last.ok
    /\ last.msg = "Destination is not a directory"
    /\ last.name # last.dest

----------------------------------------------------------------------------
(* C11 - Copy independence.  A successful copy_file(source, destination,   *)
(* owner) puts under destination, in the current directory, a new File     *)
(* object other than the source, with the source's content at copy time    *)
(* and the copying user as owner, and leaves the source as it was; a       *)
(* write_file or append_file on one name leaves the content read under     *)
(* every other name of every directory unchanged.                          *)
C11_CopyIndependence ==
    [][ /\ (last'.op = "copy_file" /\ last'.ok) =>
             LET c == CallCwd
                 s == heap[c].children[last'.name]
                 d == heap'[c].children[last'.dest]
             IN  /\ d # s
                 /\ heap[d] = Free
                 /\ isFile(heap', d)
                 /\ heap'[d].name = last'.dest
                 /\ heap'[d].content = heap[s].content
                 /\ heap'[d].size = heap[s].size
                 /\ heap'[d].owner = last'.user
                 /\ heap'[s] = heap[s]
                 /\ heap'[c].children[last'.name] = s
        /\ last'.op \in {"write_file", "append_file"} =>
             \A j \in ObjIds :
               isDirectory(heap, j) =>
                 \A n \in DOMAIN heap[j].children :
                   (<<j, n>> # <<CallCwd, last'.name>>
                      /\ isFile(heap, heap[j].children[n])) =>
                     /\ n \in DOMAIN heap'[j].children
                     /\ heap'[heap'[j].children[n]]
                          = heap[heap[j].children[n]]
      ]_vars

(* C11 witness: a file with non-empty content has just been copied and     *)
(* both names hold that content                                            *)
C11_Witness ==
    /\ last.op = "copy_file"
    /\ last.ok
    /\ LET c == users[last.user].cwd
       IN  /\ heap[heap[c].children[last.name]].content # EmptyStr
           /\ heap[heap[c].children[last.dest]].content
                = heap[heap[c].children[last.name]].content

----------------------------------------------------------------------------
(* C12 - Kind safety for file operations.  When name is a child directory  *)
(* of the current directory, read_file, write_file and append_file each    *)
(* fail with the "is a directory, not a file" outcome, not with the        *)
(* not-found outcome, and no object changes: the directory is still the    *)
(* child under name, with the children it had.                             *)
C12_FileOpOnDirectory ==
    [][ (/\ last'.op \in {"read_file", "write_file", "append_file"}
         /\ last'.name \in DOMAIN heap[CallCwd].children
         /\ isDirectory(heap, heap[CallCwd].children[last'.name]))
        => /\ ~last'.ok
           /\ last'.msg = "is a directory, not a file"
           /\ last'.msg # "File not found"
           /\ heap' = heap
           /\ users' = users
           /\ isDirectory(heap', heap'[CallCwd].children[last'.name])
      ]_vars

(* C12 witness: a write_file on a child directory has just been refused    *)
C12_Witness ==
    /\ last.op = "write_file"
    /\ ~last.ok
    /\ last.msg = "is a directory, not a file"
    /\ last.name \in DOMAIN heap[users[last.user].cwd].children
    /\ isDirectory(heap, heap[users[last.user].cwd].children[last.name])

----------------------------------------------------------------------------
(* C13 - Kind safety for navigation.  change_directory(name) where name    *)
(* is a child file of the current directory, or an absolute path that      *)
(* resolves to a file, fails, leaves the current directory unchanged, and  *)
(* its outcome is not the one given for a name that does not exist         *)
(* ("Directory '<name>' not found").  Stated for the names that            *)
(* change_directory looks up, that is all but "/", ".." and ".".           *)
C13_CdIntoFile ==
    [][ (/\ last'.op = "change_directory"
         /\ last'.name \notin { <<"/">>, <<".", ".">>, <<".">> }
         /\ LET c == CallCwd
                r == users[last'.user].root
                target == IF startswith(last'.name, "/")
                          THEN navigate_absolute_path(heap, r, last'.name)
                          ELSE get(heap, c, last'.name)
            IN  target # None /\ isFile(heap, target))
        => /\ ~last'.ok
           /\ users'[last'.user].cwd = CallCwd
           /\ last'.msg # "Directory not found"
      ]_vars

----------------------------------------------------------------------------
(* C14 as stated: change_directory("..") issued while the current          *)
(* directory is the root leaves the cursor at the root, changes nothing    *)
(* else, and is reported as a success with an informational message,       *)
(* distinct from the not-found outcome.                                    *)
C14_AsStated ==
    [][ (/\ last'.op = "change_directory"
         /\ last'.name = <<".", ".">>
         /\ CallCwd = users[last'.user].root)
        => /\ users'[last'.user].cwd = users[last'.user].root
           /\ heap' = heap
           /\ last'.ok
           /\ last'.msg # "Directory not found"
      ]_vars

(* C14 - change_directory("..") issued while the current directory is the  *)
(* root is the AtRoot outcome: the cursor stays at the root, no object and *)
(* no session changes, and the call returns the success flag False with    *)
(* the message "Already at root directory", which is not the not-found     *)
(* message.                                                                *)
C14_CdUpAtRoot ==
    [][ (/\ last'.op = "change_directory"
         /\ last'.name = <<".", ".">>
         /\ CallCwd = users[last'.user].root)
        => /\ users'[last'.user].cwd = users[last'.user].root
           /\ heap' = heap
           /\ users' = users
           /\ current_user' = current_user
           /\ ~last'.ok
           /\ last'.msg = "Already at root directory"
           /\ last'.msg # "Directory not found"
      ]_vars

(* C14 witness: ".." has just been answered at a root that has a child     *)
C14_Witness ==
    /\ last.op = "change_directory"
    /\ last.name = <<".", ".">>
    /\ last.msg = "Already at root directory"
    /\ users[last.user].cwd = users[last.user].root
    /\ DOMAIN heap[users[last.user].root].children # {}

----------------------------------------------------------------------------
(* The path "/n1/.../nk" written for the names n1..nk, "/" for none *)
RECURSIVE SlashJoin(_)
SlashJoin(ns) ==
    IF ns = <<>> THEN <<"/">>
    ELSE IF Len(ns) = 1 THEN <<"/">> \o ns[1]
    ELSE SlashJoin(SubSeq(ns, 1, Len(ns) - 1)) \o <<"/">> \o ns[Len(ns)]

(* The sequences of names along which a directory tree of the model can    *)
(* be descended                                                            *)
Descents == UNION { [1..k -> Names] : k \in 0..(MaxObj - 1) }

(* C15 - Path reconstruction.  A change_directory step never changes an    *)
(* object.  A successful descent by a single name enters the child under   *)
(* that name, whose parent is the directory left, so that ".." issued      *)
(* next returns there, and the path grows by "/name".  A successful ".."   *)
(* enters the parent.  change_directory("/") ends at the root with         *)
(* get_current_path() = "/".  In every state, a current directory found by *)
(* descending from the root through n1..nk has get_current_path() =        *)
(* "/n1/.../nk", and the path is "/" exactly at the root; hence k descents *)
(* from the root followed by k ".." end at the root with path "/".         *)
C15_PathReconstruction ==
    /\ [](\A u \in DOMAIN users :
             /\ (get_current_path(heap, users[u].cwd) = <<"/">>)
                  <=> (users[u].cwd = users[u].root)
             /\ \A ns \in Descents :
                  navigate_parts(heap, users[u].root, ns) = users[u].cwd
                    => get_current_path(heap, users[u].cwd) = SlashJoin(ns))
    /\ [][
        /\ last'.op = "change_directory" => heap' = heap
        /\ (/\ last'.op = "change_directory"
            /\ last'.ok
            /\ last'.name \notin { <<"/">>, <<".", ".">>, <<".">> }
            /\ ~startswith(last'.name, "/"))
           => LET c == CallCwd
                  n == users'[last'.user].cwd
              IN  /\ n = heap[c].children[last'.name]
                  /\ heap'[n].parent = c
                  /\ change_directory(heap', users'[last'.user].root, n,
                                      <<".", ".">>).cwd = c
                  /\ get_current_path(heap', n)
                       = IF get_current_path(heap, c) = <<"/">>
                         THEN <<"/">> \o last'.name
                         ELSE get_current_path(heap, c) \o <<"/">>
                                \o last'.name
                  /\ last'.payload = get_current_path(heap', n)
        /\ (/\ last'.op = "change_directory"
            /\ last'.ok
            /\ last'.name = <<".", ".">>)
           => /\ users'[last'.user].cwd = heap[CallCwd].parent
              /\ CallCwd
                   \in { heap[users'[last'.user].cwd].children[k] :
                           k \in DOMAIN heap[users'[last'.user].cwd].children }
        /\ (last'.op = "change_directory" /\ last'.name = <<"/">>)
           => /\ last'.ok
              /\ users'[last'.user].cwd = users'[last'.user].root
              /\ get_current_path(heap', users'[last'.user].cwd) = <<"/">>
        /\ (last'.op = "pwd" /\ last'.ok)
           => last'.payload = get_current_path(heap, CallCwd)
      ]_vars

(* C15 witness: two levels below the root, get_current_path() is "/a/a"    *)
C15_Witness ==
    /\ last.op = "change_directory"
    /\ last.ok
    /\ last.name = <<"a">>
    /\ last.payload = <<"/", "a", "/", "a">>
    /\ get_current_path(heap, users[last.user].cwd) = <<"/", "a", "/", "a">>

----------------------------------------------------------------------------
(* C16 - Session isolation.  No entry is reachable from the roots of two   *)
(* different users.  Every FileSystem operation made for the logged-in     *)
(* user (create_file, create_directory, change_directory, read_file,       *)
(* write_file, append_file, delete, move, copy_file) leaves every other    *)
(* registered user's record (root and current directory) and every entry   *)
(* reachable from that user's root unchanged.                              *)
C16_SessionIsolation ==
    /\ [](\A u, v \in DOMAIN users :
            u # v => Reachable(heap, users[u].root)
                       \cap Reachable(heap, users[v].root) = {})
    /\ [][ last'.op \in FsOps =>
             \A v \in DOMAIN users \ {last'.user} :
               /\ v \in DOMAIN users'
               /\ users'[v] = users[v]
               /\ Reachable(heap', users'[v].root)
                    = Reachable(heap, users[v].root)
               /\ \A i \in Reachable(heap, users[v].root) : heap'[i] = heap[i]
      ]_vars

(* C16 witness: with a second user registered, the logged-in user has just *)
(* changed their own tree                                                  *)
C16_Witness ==
    /\ last.op \in {"create_file", "create_directory"}
    /\ last.ok
    /\ DOMAIN heap[users[last.user].root].children # {}
    /\ \E v \in DOMAIN users : v # last.user

----------------------------------------------------------------------------
(* The tree of a session: the entries reachable from root r, each with its *)
(* fields                                                                  *)
Tree(h, r) == [i \in Reachable(h, r) |-> h[i]]

(* C17 - Session state survives logout and session switching.  A logout    *)
(* changes only the active pointer and the logged-in mark of the user who  *)
(* was active.  A successful login makes the user active and changes no    *)
(* root, current directory or object.  The root, the current directory and *)
(* the tree of a registered user change in no step other than a FileSystem *)
(* operation made for that user; so whatever logouts, logins and           *)
(* operations of other users come in between, login(id) presents the tree  *)
(* and the current directory id had when it was last active.               *)
C17_SessionSurvives ==
    [][ /\ last'.op = "logout" =>
             /\ heap' = heap
             /\ DOMAIN users' = DOMAIN users
             /\ \A u \in DOMAIN users :
                  IF u = current_user
                  THEN users'[u] = [users[u] EXCEPT !.logged_in = FALSE]
                  ELSE users'[u] = users[u]
             /\ current_user' = NoUser
        /\ (last'.op = "login" /\ last'.ok) =>
             /\ heap' = heap
             /\ current_user' = last'.user
             /\ DOMAIN users' = DOMAIN users
             /\ users'[last'.user].cwd = users[last'.user].cwd
             /\ users'[last'.user].root = users[last'.user].root
        /\ \A v \in DOMAIN users :
             ~(last'.op \in FsOps /\ last'.user = v) =>
               /\ v \in DOMAIN users'
               /\ users'[v].root = users[v].root
               /\ users'[v].cwd = users[v].cwd
               /\ Tree(heap', users'[v].root) = Tree(heap, users[v].root)
      ]_vars

(* C17 witness: a user who had logged out below the root, with another     *)
(* user registered, has just logged in again and is in that directory      *)
C17_Witness ==
    /\ last.op = "login"
    /\ last.ok
    /\ current_user = last.user
    /\ users[last.user].cwd # users[last.user].root
    /\ \E v \in DOMAIN users : v # last.user

----------------------------------------------------------------------------
(* C18 - Registry failures leave the registry unchanged.  create_user with *)
(* a registered username fails with "User already exists" and the user     *)
(* keeps the root, current directory and tree it has; login with an        *)
(* unregistered username fails with "User not found" and the active user   *)
(* stays; logout with no active user fails with "No user logged in"; none  *)
(* of the three changes anything, and no step removes a registered         *)
(* username.                                                               *)
C18_RegistryFailures ==
    [][ /\ (last'.op = "create_user" /\ last'.user \in DOMAIN users) =>
             /\ ~last'.ok
             /\ last'.msg = "User already exists"
             /\ users' = users
             /\ heap' = heap
             /\ current_user' = current_user
        /\ (last'.op = "login" /\ last'.user \notin DOMAIN users) =>
             /\ ~last'.ok
             /\ last'.msg = "User not found"
             /\ users' = users
             /\ heap' = heap
             /\ current_user' = current_user
        /\ (last'.op = "logout" /\ current_user = NoUser) =>
             /\ ~last'.ok
             /\ last'.msg = "No user logged in"
             /\ users' = users
             /\ heap' = heap
             /\ current_user' = NoUser
        /\ DOMAIN users \subseteq DOMAIN users'
      ]_vars

(* C18 witness: a create_user for a registered user whose root has a child *)
(* has just been refused, and the child is still there                     *)
C18_Witness ==
    /\ last.op = "create_user"
    /\ ~last.ok
    /\ last.msg = "User already exists"
    /\ DOMAIN heap[users[last.user].root].children # {}

----------------------------------------------------------------------------
(* C19 - Dispatcher guard.  A command line whose leading token is not in   *)
(* the command table, and any of pwd, ls, cd, mkdir, touch, write, read,   *)
(* cat, rm, mv, cp issued while no user is logged in, changes no user      *)
(* record, not the active user, and no object (so no tree and no current   *)
(* directory); while no user is logged in no FileSystem operation runs.    *)
C19_DispatcherGuard ==
    [][ /\ last'.op = "unknown_command" =>
             /\ ~last'.ok
             /\ last'.msg = "Unknown command"
             /\ heap' = heap
             /\ users' = users
             /\ current_user' = current_user
        /\ (last'.op \in LoginCommands /\ current_user = NoUser) =>
             /\ ~last'.ok
             /\ last'.msg = "No user logged in. Please login first."
             /\ heap' = heap
             /\ users' = users
             /\ current_user' = NoUser
        /\ current_user = NoUser => last'.op \notin FsOps
      ]_vars

(* C19 witness: an unknown token has just been answered while a user with  *)
(* a child in the root was logged in                                       *)
C19_Witness ==
    /\ last.op = "unknown_command"
    /\ current_user # NoUser
    /\ current_user = last.user
    /\ DOMAIN heap[users[current_user].root].children # {}

----------------------------------------------------------------------------
(* C20 - The logged-in mark agrees with the active pointer.  In every      *)
(* reachable state a registered user is marked logged_in if and only if    *)
(* it is the active user; so at most one user is marked, and none is       *)
(* while no user is active.                                                *)
C20_MarkAgreesWithActive ==
    /\ \A u \in DOMAIN users : users[u].logged_in <=> (current_user = u)
    /\ Cardinality({u \in DOMAIN users : users[u].logged_in}) <= 1
    /\ current_user = NoUser => \A u \in DOMAIN users : ~users[u].logged_in

----------------------------------------------------------------------------
(* C21 - Path round trip.  In every reachable state, for every directory   *)
(* name create_directory accepts (names containing "/" included),          *)
(* change_directory(get_current_path()) succeeds and leaves the current    *)
(* directory the directory it was.  Stated of the change_directory calls   *)
(* whose argument is the path get_current_path returns at the call.        *)
C21_PathRoundTrip ==
    [][ (/\ last'.op = "change_directory"
         /\ last'.name = get_current_path(heap, CallCwd))
        => /\ last'.ok
           /\ users'[last'.user].cwd = CallCwd
      ]_vars

----------------------------------------------------------------------------
(* The segments of an absolute path: none for "/" *)
Segments(path) ==
    IF path = <<"/">> THEN <<>> ELSE Split(Strip(path, "/"), "/")

(* Entry t is found from directory r along the segments: there is a chain  *)
(* of entries from r to t, each but the last a directory holding the next  *)
(* one under the next segment                                              *)
Resolves(h, r, segs, t) ==
    \E chain \in [0..Len(segs) -> ObjIds] :
      /\ chain[0] = r
      /\ chain[Len(segs)] = t
      /\ \A k \in 1..Len(segs) :
           /\ isDirectory(h, chain[k - 1])
           /\ segs[k] \in DOMAIN h[chain[k - 1]].children
           /\ h[chain[k - 1]].children[segs[k]] = chain[k]

(* C22 - Absolute path resolution.  For a path beginning with "/",         *)
(* change_directory succeeds exactly when the segments lead from the root  *)
(* through children lookups to a directory, and then the cursor is that    *)
(* directory; the outcome and the resulting cursor are the same from every *)
(* directory of the tree as current directory; when a segment does not     *)
(* exist or is looked up inside a file the call fails and the current      *)
(* directory is unchanged; and no object is added, removed or modified.    *)
C22_AbsoluteResolution ==
    [][ (/\ last'.op = "change_directory"
         /\ startswith(last'.name, "/"))
        => LET u == last'.user
               r == users[u].root
               segs == Segments(last'.name)
               found == {t \in ObjIds : Resolves(heap, r, segs, t)
                                          /\ isDirectory(heap, t)}
           IN  /\ last'.ok <=> found # {}
               /\ last'.ok => users'[u].cwd \in found
               /\ ~last'.ok => users'[u].cwd = users[u].cwd
               /\ \A d \in Reachable(heap, r) :
                    isDirectory(heap, d) =>
                      LET other == change_directory(heap, r, d, last'.name)
                      IN  /\ other.ok = last'.ok
                          /\ other.msg = last'.msg
                          /\ other.ok => other.cwd = users'[u].cwd
               /\ heap' = heap
               /\ users' = [users EXCEPT ![u].cwd = users'[u].cwd]
               /\ current_user' = current_user
      ]_vars

(* C22 witness: cd "/a/a" has just failed where "/a" is a directory that   *)
(* holds no directory "a", and the cursor is not in "/a"                   *)
C22_Witness ==
    /\ last.op = "change_directory"
    /\ last.name = <<"/", "a", "/", "a">>
    /\ ~last.ok
    /\ LET r == users[last.user].root
       IN  /\ <<"a">> \in DOMAIN heap[r].children
           /\ isDirectory(heap, heap[r].children[<<"a">>])
           /\ users[last.user].cwd # heap[r].children[<<"a">>]

====
